---- MODULE Spec2Model ----
(***************************************************************************)
(* Model of olympus/base.py: the OlympusCollector push pipeline            *)
(* (create_index, push, fake_push, __collect) against a remote             *)
(* Elasticsearch store, of concurrent create_index calls, and of the       *)
(* registry of collector classes.                                          *)
(*                                                                         *)
(* Strings are sequences of tokens, so that Python's string concatenation  *)
(* is \o.  A dict is a function from its keys; d.get(k) is Get(d, k).      *)
(***************************************************************************)
EXTENDS Integers, Sequences, FiniteSets, TLC

\* ---------------------------------------------------------------- bounds
\* most records a collector produces when the store accepts every item
MaxRecords == 5
\* most records a collector produces when the store may reject items
MaxLossyRecords == 2
\* largest chunk_size a collector class sets
MaxChunk == 2
\* timestamps range over the days 1..MaxDay
MaxDay == 2
\* most collector classes defined in one process
MaxClasses == 3

\* ------------------------------------------------------- values and names
\* Python's None where a string is expected (no real string has this token)
None == <<"None">>
\* the empty string
Empty == <<>>
\* Python truthiness of an Optional[str]
Truthy(s) == s # None /\ s # Empty

\* d.get(k): <<v>> when the key is present, <<>> (Python's None) when absent
Get(d, k) == IF k \in DOMAIN d THEN <<d[k]>> ELSE <<>>

\* cls.__module__ split on '.', and cls.__name__
cls_module == <<"app", "collectors">>
cls_name == "Users"

\* str.lower(), token by token
LowerToken(t) == CASE t = "Users" -> "users"
                   [] t = "App" -> "app"
                   [] OTHER -> t
Lower(s) == [i \in DOMAIN s |-> LowerToken(s[i])]

\* f"{cls.__module__.split('.')[0]}.{cls.__name__}"
qualified_name(module, clsname) == <<Head(module), ".", clsname>>

\* OlympusCollector.name()
name == qualified_name(cls_module, cls_name)

\* the modules and names of the collector classes a project defines
Modules == {<<"app", "collectors">>, <<"billing", "tasks", "collectors">>}
ClassNames == {"Users", "Orders", "Events"}

Hours == {0, 23}
Timestamps == {[day |-> d, hour |-> h] : d \in 1..MaxDay, h \in Hours}
\* the timestamp of the earlier run that left the store's initial state
Epoch == [day |-> 1, hour |-> 0]

\* datetime.strftime: a pattern is a sequence of directives and literals
FormatToken(ts, t) == CASE t = "%d" -> ToString(ts.day)
                        [] t = "%H" -> ToString(ts.hour)
                        [] OTHER -> t
strftime(ts, pattern) == [i \in DOMAIN pattern |-> FormatToken(ts, pattern[i])]

DayPattern == <<"%d">>
HourPattern == <<"%d", ".", "%H">>

\* an index a record may name itself
OtherIndex == <<"archive">>
\* an alias of that index, maintained by someone else
OtherAlias == <<"archive", "-current">>

OpTypes == {"index", "update", "delete"}
Statuses == {200, 404, 409}

VARIABLES
    \* class attributes of the collector (base.py:25-28)
    index_name, index_date_pattern, chunk_size, alias_suffix,
    \* which collect() the subclass implements (base.py:124 is abstract)
    collect_impl,
    \* the remote store: existing indices, alias bindings <<alias, index>>,
    \* documents <<index, id>>
    indices, aliases, docs,
    \* whether the store accepts every bulk item
    store_accepts_all,
    \* one invocation of push()/fake_push()
    pc, method, timestamp, stats_cb,
    collected, exhausted, bulk_actions, lookahead, outcomes,
    success, fails, result,
    \* the exception that propagated out of the method, if any
    exception,
    \* what the outside sees: requests sent to the store, observer calls
    requests, observed,
    \* the (ok, item) pairs streaming_bulk has yielded to the loop of push()
    yielded,
    \* concurrent create_index calls, one per process
    cpc, cts, overlapped, last_put, last_done, store_at_done,
    \* the module-level registry (base.py:9), the class definitions executed
    \* so far, and the last value collectors() returned
    _collectors, defined, listed

registryVars == <<_collectors, defined, listed>>
classVars == <<index_name, index_date_pattern, chunk_size, alias_suffix,
               collect_impl, registryVars>>
storeVars == <<indices, aliases, docs>>
pushVars == <<pc, method, timestamp, stats_cb, collected, exhausted,
              bulk_actions, lookahead, outcomes, success, fails, result,
              requests, observed, yielded, exception>>
concVars == <<cpc, cts, overlapped, last_put, last_done, store_at_done>>
vars == <<classVars, storeVars, store_accepts_all, pushVars, concVars>>

Procs == {1, 2}

\* ------------------------------------------------------------ index naming
\* faulty variant: the qualified name is used as it is spelled
get_raw_index_name_not_lowered == IF Truthy(index_name) THEN index_name ELSE name

\* OlympusCollector.__get_raw_index_name
get_raw_index_name == IF Truthy(index_name) THEN index_name ELSE Lower(name)

\* OlympusCollector.get_index_name
get_index_name(ts) ==
    IF index_date_pattern = None
    THEN get_raw_index_name
    ELSE get_raw_index_name \o <<"-">> \o strftime(ts, index_date_pattern)

\* the alias name computed in create_index
alias_name == get_raw_index_name \o alias_suffix

\* faulty variant: the alias is maintained whenever a pattern is set
bucketed_ignores_suffix == Truthy(index_date_pattern)

\* the condition of create_index under which the alias is maintained
bucketed == Truthy(index_date_pattern) /\ Truthy(alias_suffix)

\* ------------------------------------------------- requests to the store
Request(op, index, alias, actions) ==
    [op |-> op, index |-> index, alias |-> alias, actions |-> actions]

\* a 2xx status is success
IsOk(status) == status >= 200 /\ status < 300

\* the status the store answers: 400 (resource_already_exists) to the creation
\* of an index that exists, 404 to the deletion of an alias no index has
create_status(idx, index) == IF index \in idx THEN 400 ELSE 200
delete_alias_status(al, alias) ==
    IF \E b \in al : b[1] = alias THEN 200 ELSE 404

\* faulty variant: the call passes no ignore argument
create_ignore_nothing == {}

\* ignore=400 of line 61 and ignore=404 of line 65
create_ignore == {400}
delete_alias_ignore == {404}

\* the client raises on a status that is neither 2xx nor ignored
rejected(status, ignore) == ~IsOk(status) /\ status \notin ignore

\* es.indices.create(index=..., ignore=400): an existing index answers 400,
\* which is ignored
indices_create(idx, index) == idx \cup {index}

\* faulty variant: the delete removes nothing
indices_delete_alias_noop(al, alias) == al

\* es.indices.delete_alias(index='_all', name=alias, ignore=404)
indices_delete_alias(al, alias) == {b \in al : b[1] # alias}

\* faulty variant: index and alias name passed the wrong way round
indices_put_alias_swapped(al, index, alias) == al \cup {<<index, alias>>}

\* es.indices.put_alias(index=..., name=alias)
indices_put_alias(al, index, alias) == al \cup {<<alias, index>>}

\* the indices an alias resolves to
Resolve(alias) == {b[2] : b \in {x \in aliases : x[1] = alias}}

\* ------------------------------------------------------------ initial state
\* the store as a completed create_index at timestamp ts leaves an empty one
ProvisionedIndices(ts) == indices_create({}, get_index_name(ts))
ProvisionedAliases(ts) ==
    IF bucketed
    THEN indices_put_alias(indices_delete_alias({}, alias_name),
                           get_index_name(ts), alias_name)
    ELSE {}

InitInvocation ==
    /\ pc = "idle"
    /\ method = "none"
    /\ timestamp = Epoch
    /\ stats_cb = FALSE
    /\ collected = <<>>
    /\ exhausted = FALSE
    /\ bulk_actions = <<>>
    /\ lookahead = <<>>
    /\ outcomes = <<>>
    /\ success = 0
    /\ fails = <<>>
    /\ result = <<>>
    /\ requests = <<>>
    /\ observed = <<>>
    /\ yielded = <<>>
    /\ exception = "none"

InitConc ==
    /\ cpc = [p \in Procs |-> "idle"]
    /\ cts = [p \in Procs |-> Epoch]
    /\ overlapped = FALSE
    /\ last_put = <<>>
    /\ last_done = <<>>
    /\ store_at_done = <<>>

\* a class object: its module, its name and its identity, the number of the
\* class statement that made it
Class(module, clsname, serial) ==
    [module |-> module, name |-> clsname, serial |-> serial]

\* faulty variant: a class whose qualified name is registered is skipped
init_subclass_once(registry, cls) ==
    IF \E i \in DOMAIN registry :
          registry[i][2] = qualified_name(cls.module, cls.name)
    THEN registry
    ELSE Append(registry, <<Head(cls.module),
                            qualified_name(cls.module, cls.name), cls>>)

\* OlympusCollector.__init_subclass__: _collectors.append((namespace, name, cls))
init_subclass(registry, cls) ==
    Append(registry, <<Head(cls.module), qualified_name(cls.module, cls.name), cls>>)

\* the registry of a process in which only the collector class pushed here
\* has been defined
InitRegistered ==
    /\ defined = <<Class(cls_module, cls_name, 1)>>
    /\ _collectors = init_subclass(<<>>, defined[1])
    /\ listed = <<>>

\* the store before the run modelled: an earlier run at Epoch has provisioned
\* it, and it holds an index and an alias this collector does not own
InitialIndices == ProvisionedIndices(Epoch) \cup {OtherIndex}
InitialAliases == ProvisionedAliases(Epoch) \cup {<<OtherAlias, OtherIndex>>}

\* the class attributes <<index_date_pattern, alias_suffix>> of the
\* collector classes pushed
PushClasses == {<<None, <<"-latest">>>>, <<DayPattern, <<"-latest">>>>,
                <<DayPattern, Empty>>}

\* the timestamps of the pushes: the day of the earlier run and the next
PushTimestamps == {t \in Timestamps : t.hour = 0 /\ t.day <= Epoch.day + 1}

\* one collector class, the store as an earlier run of the same class at
\* Epoch provisioned it, and no invocation yet
Init ==
    /\ index_name = None
    /\ \E c \in PushClasses :
          /\ index_date_pattern = c[1]
          /\ alias_suffix = c[2]
    /\ chunk_size \in 1..MaxChunk
    /\ collect_impl \in {"sync", "archive"}
    /\ store_accepts_all \in BOOLEAN
    /\ indices = InitialIndices
    /\ aliases = InitialAliases
    /\ docs = {}
    /\ InitInvocation
    /\ InitConc
    /\ InitRegistered

\* ------------------------------------------------------------ construction
\* faulty variant: fake_push() provisions and pushes like push()
entry_always_provisions(m) == "create"

\* where a method starts: push() with create_index, fake_push() with its loop
entry(m) == IF m = "push" THEN "create" ELSE "fake_loop"

\* OlympusCollector.__init__ followed by the call of push() or fake_push()
Start ==
    /\ pc = "idle"
    /\ \E m \in {"push", "fake_push"}, ts \in PushTimestamps,
          cb \in BOOLEAN :
          /\ method' = m
          /\ timestamp' = ts
          /\ stats_cb' = cb
          /\ pc' = entry(m)
    /\ UNCHANGED <<classVars, storeVars, store_accepts_all, concVars,
                   collected, exhausted, bulk_actions, lookahead, outcomes,
                   success, fails, result, requests, observed, yielded,
                   exception>>

\* ------------------------------------------------------------ create_index
\* faulty variant: the alias is not maintained before the records are pushed
AfterCreate_skips_alias == "collect"

\* where create_index goes after indices.create
AfterCreate == IF bucketed THEN "delete_alias" ELSE "collect"

\* faulty variant: an error of create_index is swallowed and the push goes on
on_provisioning_error_swallowed == "collect"

\* faulty variant: a batch that fails to send is skipped
on_transport_error_skipped == "collect"

\* faulty variant: an error of collect() ends the stream like exhaustion
on_collect_error_returns == "return"

\* push() and fake_push() have no try/except: an error of create_index, of
\* the bulk request or of collect() leaves the method at once
on_provisioning_error == "raised"
on_transport_error == "raised"
on_collect_error == "raised"

\* a request that raises: the error propagates out of push()
Raise(req) ==
    /\ requests' = Append(requests, req)
    /\ pc' = IF req.op = "bulk" THEN on_transport_error ELSE on_provisioning_error
    /\ exception' = IF req.op = "bulk" THEN "transport" ELSE "provisioning"
    /\ UNCHANGED <<storeVars, collected, exhausted, bulk_actions, lookahead,
                   outcomes, success, fails, result, observed, yielded>>

\* line 61: self.es.indices.create(index=self.get_index_name(), ignore=400)
CreateIndex ==
    /\ pc = "create"
    /\ LET req == Request("indices.create", get_index_name(timestamp), Empty, <<>>)
       IN \/ /\ ~rejected(create_status(indices, get_index_name(timestamp)),
                         create_ignore)
             /\ indices' = indices_create(indices, get_index_name(timestamp))
             /\ requests' = Append(requests, req)
             /\ pc' = AfterCreate
             /\ UNCHANGED <<aliases, docs, collected, exhausted, bulk_actions,
                            lookahead, outcomes, success, fails, result, observed, yielded,
                            exception>>
          \/ Raise(req)
    /\ UNCHANGED <<classVars, store_accepts_all, concVars,
                   method, timestamp, stats_cb>>

\* line 65: self.es.indices.delete_alias(index='_all', name=alias, ignore=404)
DeleteAlias ==
    /\ pc = "delete_alias"
    /\ LET req == Request("indices.delete_alias", <<"_all">>, alias_name, <<>>)
       IN \/ /\ ~rejected(delete_alias_status(aliases, alias_name),
                         delete_alias_ignore)
             /\ aliases' = indices_delete_alias(aliases, alias_name)
             /\ requests' = Append(requests, req)
             /\ pc' = "put_alias"
             /\ UNCHANGED <<indices, docs, collected, exhausted, bulk_actions,
                            lookahead, outcomes, success, fails, result, observed, yielded,
                            exception>>
          \/ Raise(req)
    /\ UNCHANGED <<classVars, store_accepts_all, concVars,
                   method, timestamp, stats_cb>>

\* line 66: self.es.indices.put_alias(index=self.get_index_name(), name=alias)
PutAlias ==
    /\ pc = "put_alias"
    /\ LET req == Request("indices.put_alias", get_index_name(timestamp), alias_name, <<>>)
       IN \/ /\ aliases' = indices_put_alias(aliases, get_index_name(timestamp), alias_name)
             /\ requests' = Append(requests, req)
             /\ pc' = "collect"
             /\ UNCHANGED <<indices, docs, collected, exhausted, bulk_actions,
                            lookahead, outcomes, success, fails, result, observed, yielded,
                            exception>>
          \/ Raise(req)
    /\ UNCHANGED <<classVars, store_accepts_all, concVars,
                   method, timestamp, stats_cb>>

\* ------------------------------------------------------------- the records
\* the records collect() may yield as its k-th.  A "sync" collector yields
\* index, update and delete operations that name neither index nor type; an
\* "archive" collector yields index operations that name their own index or
\* their own type
RawRecords(k) ==
    IF collect_impl = "sync"
    THEN {[_op_type |-> op, _id |-> k] : op \in OpTypes}
    ELSE {[_op_type |-> "index", _id |-> k, _index |-> OtherIndex],
          [_op_type |-> "index", _id |-> k, _type |-> "doc"]}

\* how many records collect() yields at most
RecordLimit == IF store_accepts_all THEN MaxRecords ELSE MaxLossyRecords

\* faulty variant: the field is stamped whether the record has it or not
SetDefault_overwrites(d, k, v) == [x \in DOMAIN d \cup {k} |-> IF x = k THEN v ELSE d[x]]

\* d[k] = v if k not in d
SetDefault(d, k, v) == IF k \in DOMAIN d THEN d ELSE d @@ (k :> v)

\* faulty variant: the record is stamped with the undated name
collect_defaults_undated(r) ==
    SetDefault(SetDefault(r, "_type", "status"), "_index", get_raw_index_name)

\* OlympusCollector.__collect, for one record
collect_defaults(r) ==
    SetDefault(SetDefault(r, "_type", "status"), "_index", get_index_name(timestamp))

\* ------------------------------------------------------------ the bulk helper
\* helpers.streaming_bulk: ok is a 2xx status; the response item is a dict
\* with the operation as its one key
BulkItem(a, status) ==
    a._op_type :> [_index |-> a._index, _type |-> a._type, _id |-> a._id,
                   status |-> status]

\* the store's documents after a bulk request with the given statuses
ApplyBulk(d, actions, st) ==
    LET accepted(op) == {<<actions[i]._index, actions[i]._id>> :
                           i \in {j \in DOMAIN actions :
                                    IsOk(st[j]) /\ actions[j]._op_type = op}}
    IN (d \cup accepted("index") \cup accepted("update")) \ accepted("delete")

\* faulty variant: the chunk is flushed one record early
chunk_full_off_by_one(actions) == actions # <<>> /\ Len(actions) + 1 >= chunk_size

\* faulty variant: chunk_size is not passed on and nothing is flushed before
\* the collector is exhausted
chunk_full_never(actions) == FALSE

\* the chunker's test for a full chunk (chunk_size=self.chunk_size)
chunk_full(actions) == actions # <<>> /\ Len(actions) = chunk_size

\* the chunker of streaming_bulk pulls the next record from __collect():
\* a full chunk is flushed when the record after it arrives
Collect ==
    /\ pc = "collect"
    /\ \/ /\ Len(collected) < RecordLimit
          /\ \E r \in RawRecords(Len(collected) + 1) :
                /\ collected' = Append(collected, r)
                /\ IF chunk_full(bulk_actions)
                   THEN /\ lookahead' = <<collect_defaults(r)>>
                        /\ pc' = "send"
                        /\ UNCHANGED bulk_actions
                   ELSE /\ bulk_actions' = Append(bulk_actions, collect_defaults(r))
                        /\ UNCHANGED <<lookahead, pc>>
          /\ UNCHANGED <<exhausted, exception>>
       \/ \* collect() is exhausted: the last chunk, if any, is flushed
          /\ exhausted' = TRUE
          /\ pc' = IF bulk_actions # <<>> THEN "send" ELSE "return"
          /\ UNCHANGED <<collected, bulk_actions, lookahead, exception>>
       \/ \* collect() raises
          /\ pc' = on_collect_error
          /\ exception' = "collect"
          /\ UNCHANGED <<collected, exhausted, bulk_actions, lookahead>>
    /\ UNCHANGED <<classVars, storeVars, store_accepts_all, concVars,
                   method, timestamp, stats_cb, outcomes, success, fails,
                   result, requests, observed, yielded>>

\* streaming_bulk submits the chunk as one bulk request; with
\* raise_on_error=False item errors come back in-band, a transport error raises
Bulk ==
    /\ pc = "send"
    /\ LET req == Request("bulk", Empty, Empty, bulk_actions)
       IN \/ \E st \in [DOMAIN bulk_actions -> Statuses] :
                /\ store_accepts_all => \A i \in DOMAIN st : st[i] = 200
                /\ outcomes' = [i \in DOMAIN bulk_actions |->
                                  <<IsOk(st[i]), BulkItem(bulk_actions[i], st[i])>>]
                /\ docs' = ApplyBulk(docs, bulk_actions, st)
                /\ requests' = Append(requests, req)
                /\ bulk_actions' = <<>>
                /\ pc' = "results"
                /\ UNCHANGED <<indices, aliases, collected, exhausted, lookahead,
                               success, fails, result, observed, yielded,
                               exception>>
          \/ Raise(req)
    /\ UNCHANGED <<classVars, store_accepts_all, concVars,
                   method, timestamp, stats_cb>>

\* ------------------------------------------------------------------- push
\* item.get(k, {})
GetDict(d, k) == IF k \in DOMAIN d THEN d[k] ELSE <<>>

\* faulty variant: the delete status read under the wrong key
delete_status_wrong_key(item) == Get(GetDict(item, "delete"), "delete")

\* lines 101-102
delete_status(item) == Get(GetDict(item, "delete"), "status")
update_status(item) == Get(GetDict(item, "update"), "update")

\* faulty variant: any "not found" is overridden, whatever the operation
effective_ok_any_404(ok, item) ==
    IF ~ok /\ \E k \in DOMAIN item : Get(item[k], "status") = <<404>>
    THEN TRUE
    ELSE ok

\* lines 103-106: ok after the "not found" override
effective_ok(ok, item) ==
    IF ~ok /\ (delete_status(item) = <<404>> \/ update_status(item) = <<404>>)
    THEN TRUE
    ELSE ok

\* faulty variant: failures are collected newest first
next_fails_prepend(fs, ok, item) == IF ~ok THEN <<item>> \o fs ELSE fs

\* lines 109-112: the accumulation
next_fails(fs, ok, item) == IF ~ok THEN Append(fs, item) ELSE fs
next_success(n, ok) == IF ~ok THEN n ELSE n + 1

\* one iteration of the loop of push() (lines 98-112); after the last
\* outcome of a chunk the chunker resumes, starting the next chunk with the
\* record it held back
LoopBody ==
    /\ pc = "results"
    /\ outcomes # <<>>
    /\ LET ok == effective_ok(Head(outcomes)[1], Head(outcomes)[2])
           item == Head(outcomes)[2]
       IN /\ observed' = IF stats_cb THEN Append(observed, <<ok, item>>) ELSE observed
          /\ fails' = next_fails(fails, ok, item)
          /\ success' = next_success(success, ok)
    /\ yielded' = Append(yielded, Head(outcomes))
    /\ outcomes' = Tail(outcomes)
    /\ IF Tail(outcomes) # <<>>
       THEN UNCHANGED <<pc, bulk_actions, lookahead>>
       ELSE IF exhausted
            THEN pc' = "return" /\ UNCHANGED <<bulk_actions, lookahead>>
            ELSE pc' = "collect" /\ bulk_actions' = lookahead /\ lookahead' = <<>>
    /\ UNCHANGED <<classVars, storeVars, store_accepts_all, concVars,
                   method, timestamp, stats_cb, collected, exhausted, result,
                   requests, exception>>

\* line 113 and line 84
Return ==
    /\ pc = "return"
    /\ result' = IF method = "push" THEN <<success, fails>> ELSE <<success, <<>>>>
    /\ pc' = "done"
    /\ UNCHANGED <<classVars, storeVars, store_accepts_all, concVars,
                   method, timestamp, stats_cb, collected, exhausted,
                   bulk_actions, lookahead, outcomes, success, fails,
                   requests, observed, yielded, exception>>

\* -------------------------------------------------------------- fake_push
\* one iteration of the loop of fake_push() (lines 79-83), or its end
FakeLoop ==
    /\ pc = "fake_loop"
    /\ \/ /\ Len(collected) < RecordLimit
          /\ \E r \in RawRecords(Len(collected) + 1) :
                /\ collected' = Append(collected, r)
                /\ observed' = IF stats_cb
                               THEN Append(observed, <<TRUE, collect_defaults(r)>>)
                               ELSE observed
          /\ success' = success + 1
          /\ UNCHANGED <<pc, exhausted, exception>>
       \/ /\ exhausted' = TRUE
          /\ pc' = "return"
          /\ UNCHANGED <<collected, success, observed, exception>>
       \/ /\ pc' = on_collect_error
          /\ exception' = "collect"
          /\ UNCHANGED <<collected, exhausted, success, observed>>
    /\ UNCHANGED <<classVars, storeVars, store_accepts_all, concVars,
                   method, timestamp, stats_cb, bulk_actions, lookahead,
                   outcomes, fails, result, requests, yielded>>

Next ==
    \/ Start
    \/ CreateIndex
    \/ DeleteAlias
    \/ PutAlias
    \/ Collect
    \/ Bulk
    \/ LoopBody
    \/ Return
    \/ FakeLoop

Spec == Init /\ [][Next]_vars

\* ------------------------------------------- concurrent create_index calls
\* Invocations of the same collector class in separate processes, each with
\* its own timestamp, call create_index against the shared store; their
\* requests interleave freely (no locking).

\* process q is inside create_index
Inside(q) == cpc[q] \in {"create", "delete_alias", "put_alias"}

\* the collector classes provisioned concurrently:
\* <<index_name, index_date_pattern, alias_suffix>>; the hourly pattern is
\* taken with the default name only
ConcClasses ==
    ({None, <<"custom">>} \X {None, Empty, DayPattern} \X {<<"-latest">>, Empty})
    \cup ({None} \X {HourPattern} \X {<<"-latest">>, Empty})

InitConcurrent ==
    /\ \E c \in ConcClasses :
          /\ index_name = c[1]
          /\ index_date_pattern = c[2]
          /\ alias_suffix = c[3]
    /\ chunk_size = 1
    /\ collect_impl = "sync"
    /\ store_accepts_all = TRUE
    /\ indices = {}
    /\ aliases = {}
    /\ docs = {}
    /\ InitInvocation
    /\ InitConc
    /\ InitRegistered

\* a process constructs the collector with its timestamp and calls create_index
ConcStart(p) ==
    /\ cpc[p] \in {"idle", "done"}
    /\ \E ts \in Timestamps : cts' = [cts EXCEPT ![p] = ts]
    /\ cpc' = [cpc EXCEPT ![p] = "create"]
    /\ overlapped' = (overlapped \/ \E q \in Procs \ {p} : Inside(q))
    /\ UNCHANGED <<classVars, storeVars, store_accepts_all, pushVars,
                   last_put, last_done, store_at_done>>

\* line 61
ConcCreateIndex(p) ==
    /\ cpc[p] = "create"
    /\ IF rejected(create_status(indices, get_index_name(cts[p])), create_ignore)
       THEN /\ cpc' = [cpc EXCEPT ![p] = "raised"]
            /\ UNCHANGED <<indices, last_done, store_at_done>>
       ELSE /\ indices' = indices_create(indices, get_index_name(cts[p]))
            /\ cpc' = [cpc EXCEPT ![p] =
                        IF bucketed THEN "delete_alias" ELSE "done"]
            /\ last_done' = IF bucketed THEN last_done ELSE <<cts[p]>>
            /\ store_at_done' = IF bucketed THEN store_at_done
                                 ELSE <<indices', aliases>>
    /\ UNCHANGED <<classVars, aliases, docs, store_accepts_all, pushVars,
                   cts, overlapped, last_put>>

\* line 65
ConcDeleteAlias(p) ==
    /\ cpc[p] = "delete_alias"
    /\ IF rejected(delete_alias_status(aliases, alias_name), delete_alias_ignore)
       THEN /\ cpc' = [cpc EXCEPT ![p] = "raised"]
            /\ UNCHANGED aliases
       ELSE /\ aliases' = indices_delete_alias(aliases, alias_name)
            /\ cpc' = [cpc EXCEPT ![p] = "put_alias"]
    /\ UNCHANGED <<classVars, indices, docs, store_accepts_all, pushVars,
                   cts, overlapped, last_put, last_done, store_at_done>>

\* line 66
ConcPutAlias(p) ==
    /\ cpc[p] = "put_alias"
    /\ aliases' = indices_put_alias(aliases, get_index_name(cts[p]), alias_name)
    /\ cpc' = [cpc EXCEPT ![p] = "done"]
    /\ last_put' = <<get_index_name(cts[p])>>
    /\ last_done' = <<cts[p]>>
    /\ store_at_done' = <<indices, aliases'>>
    /\ UNCHANGED <<classVars, indices, docs, store_accepts_all, pushVars,
                   cts, overlapped>>

NextConcurrent ==
    \E p \in Procs :
        \/ ConcStart(p)
        \/ ConcCreateIndex(p)
        \/ ConcDeleteAlias(p)
        \/ ConcPutAlias(p)

SpecConcurrent == InitConcurrent /\ [][NextConcurrent]_vars

\* ------------------------------------------------- the collector registry
\* a process that has imported olympus.base and defined no collector yet
InitRegistry ==
    /\ index_name = None
    /\ index_date_pattern = None
    /\ alias_suffix = <<"-latest">>
    /\ chunk_size = 1
    /\ collect_impl = "sync"
    /\ store_accepts_all = TRUE
    /\ indices = {}
    /\ aliases = {}
    /\ docs = {}
    /\ InitInvocation
    /\ InitConc
    /\ _collectors = <<>>
    /\ defined = <<>>
    /\ listed = <<>>

\* a class statement with OlympusCollector as base runs __init_subclass__
DefineSubclass ==
    /\ Len(defined) < MaxClasses
    /\ \E m \in Modules, n \in ClassNames :
          LET cls == Class(m, n, Len(defined) + 1)
          IN /\ _collectors' = init_subclass(_collectors, cls)
             /\ defined' = Append(defined, cls)
    /\ UNCHANGED <<index_name, index_date_pattern, chunk_size, alias_suffix,
                   collect_impl, listed, storeVars, store_accepts_all,
                   pushVars, concVars>>

\* collectors() returns the registry
CallCollectors ==
    /\ listed' = _collectors
    /\ UNCHANGED <<index_name, index_date_pattern, chunk_size, alias_suffix,
                   collect_impl, _collectors, defined, storeVars,
                   store_accepts_all, pushVars, concVars>>

NextRegistry == DefineSubclass \/ CallCollectors

SpecRegistry == InitRegistry /\ [][NextRegistry]_vars

\* =================================================================== claims

\* the bulk requests sent so far, in order
BulkRequests == SelectSeq(requests, LAMBDA r : r.op = "bulk")

\* the body of a response item (the value under its one key)
Body(item) == item[CHOOSE k \in DOMAIN item : TRUE]

\* the yielded pair e is a failure of operation op answered 404
IsNotFound(e, op) == ~e[1] /\ op \in DOMAIN e[2] /\ e[2][op].status = 404

\* the yielded pair e is a failure other than a 404 on delete or update
HardFailure(e) == ~e[1] /\ ~IsNotFound(e, "delete") /\ ~IsNotFound(e, "update")

PushDone == pc = "done" /\ method = "push"

\* C1: a live push of N records to a store that accepts every item returns
\* (N, []), and with bucketing enabled the alias then resolves to exactly
\* the index name of this invocation's timestamp.
C1_LivePushAllAccepted ==
    (PushDone /\ store_accepts_all) =>
        /\ result = <<Len(collected), <<>>>>
        /\ bucketed => Resolve(alias_name) = {get_index_name(timestamp)}

C1_Witness ==
    /\ PushDone /\ store_accepts_all /\ bucketed
    /\ timestamp # Epoch
    /\ result = <<3, <<>>>>
    /\ Resolve(alias_name) = {get_index_name(timestamp)}
    /\ get_index_name(Epoch) \in indices

\* C2: every failed update answered 404 is overridden to success: the
\* observer gets ok=true for it, it is counted as a success and it is not in
\* the failure list.
C2_Update404IsSuccess ==
    method = "push" =>
        /\ \A i \in DOMAIN yielded : IsNotFound(yielded[i], "update") =>
              /\ stats_cb => observed[i] = <<TRUE, yielded[i][2]>>
              /\ \A j \in DOMAIN fails : fails[j] # yielded[i][2]
        /\ success >= Cardinality({i \in DOMAIN yielded :
                                     yielded[i][1] \/ IsNotFound(yielded[i], "update")})

\* C3: every failed delete answered 404 is reported as success: the observer
\* gets ok=true for it, it is counted as a success and it is absent from the
\* failure list.
C3_Delete404IsSuccess ==
    method = "push" =>
        /\ \A i \in DOMAIN yielded : IsNotFound(yielded[i], "delete") =>
              /\ stats_cb => observed[i] = <<TRUE, yielded[i][2]>>
              /\ \A j \in DOMAIN fails : fails[j] # yielded[i][2]
        /\ success >= Cardinality({i \in DOMAIN yielded :
                                     yielded[i][1] \/ IsNotFound(yielded[i], "delete")})

C3_Witness ==
    /\ PushDone /\ stats_cb
    /\ \E i \in DOMAIN yielded :
          /\ IsNotFound(yielded[i], "delete")
          /\ observed[i][1] = TRUE
    /\ result = <<1, <<>>>>

\* C4: a failure that is not a 404 on delete or update (an index answered
\* 409, for one) passes through unchanged: the observer gets ok=false, the
\* item is in the failure list and the success count leaves it out.
C4_HardFailurePassesThrough ==
    method = "push" =>
        /\ \A i \in DOMAIN yielded : HardFailure(yielded[i]) =>
              /\ stats_cb => observed[i] = <<FALSE, yielded[i][2]>>
              /\ \E j \in DOMAIN fails : fails[j] = yielded[i][2]
        /\ success <= Len(yielded)
                        - Cardinality({i \in DOMAIN yielded : HardFailure(yielded[i])})

C4_Witness ==
    /\ PushDone /\ stats_cb
    /\ Len(yielded) = 2
    /\ yielded[1][1] /\ HardFailure(yielded[2])
    /\ "index" \in DOMAIN yielded[2][2] /\ yielded[2][2]["index"].status = 409
    /\ result = <<1, <<yielded[2][2]>>>>
    /\ observed[2] = <<FALSE, yielded[2][2]>>

\* C5: a live push of N records that returns has called the observer once
\* per record, in the order of the outcomes and of the records, with the
\* flag after the override and the raw item; success count and failures add
\* up to N, and the failure list is exactly the items classified as failed,
\* in order.  While the push runs the counts add up to the outcomes seen.
C5_EveryOutcomeAccounted ==
    LET classified == [i \in DOMAIN yielded |->
                         <<effective_ok(yielded[i][1], yielded[i][2]), yielded[i][2]>>]
        failed == SelectSeq(classified, LAMBDA e : ~e[1])
    IN /\ method = "push" =>
            /\ success + Len(fails) = Len(yielded)
            /\ fails = [i \in DOMAIN failed |-> failed[i][2]]
            /\ observed = IF stats_cb THEN classified ELSE <<>>
            /\ \A i \in DOMAIN yielded : Body(yielded[i][2])._id = i
       /\ PushDone =>
            /\ Len(yielded) = Len(collected)
            /\ result = <<success, fails>>

C5_Witness ==
    /\ PushDone /\ stats_cb
    /\ Len(collected) = 2 /\ Len(observed) = 2
    /\ ~observed[1][1] /\ observed[2][1]
    /\ result = <<1, <<yielded[1][2]>>>>

\* C6: fake_push() sends no request to the store and leaves its indices,
\* aliases and documents as they were; it calls the observer once per record
\* with ok=true and returns (N, []) for N records.
C6_FakePushTouchesNothing ==
    method = "fake_push" =>
        /\ requests = <<>>
        /\ indices = InitialIndices
        /\ aliases = InitialAliases
        /\ docs = {}
        /\ stats_cb => /\ Len(observed) = Len(collected)
                       /\ \A i \in DOMAIN observed : observed[i][1] = TRUE
        /\ ~stats_cb => observed = <<>>
        /\ success = Len(collected)
        /\ pc = "done" => result = <<Len(collected), <<>>>>

C6_Witness ==
    /\ method = "fake_push" /\ pc = "done" /\ stats_cb
    /\ result = <<3, <<>>>>
    /\ Len(observed) = 3
    /\ requests = <<>>

\* the requests of one create_index, in order
ProvisionOps ==
    IF bucketed
    THEN <<"indices.create", "indices.delete_alias", "indices.put_alias">>
    ELSE <<"indices.create">>

\* C7: in a live push create_index runs once and is complete (create-index,
\* then alias delete, then alias bind) before any record is pulled and before
\* the first batch is sent; every later request is a bulk request.
C7_ProvisionedBeforeFirstRecord ==
    method = "push" =>
        /\ \A i \in DOMAIN requests :
              requests[i].op = IF i <= Len(ProvisionOps) THEN ProvisionOps[i] ELSE "bulk"
        /\ (collected # <<>> \/ exhausted \/ BulkRequests # <<>>) =>
              /\ Len(requests) >= Len(ProvisionOps)
              /\ get_index_name(timestamp) \in indices
              /\ bucketed => Resolve(alias_name) = {get_index_name(timestamp)}

C7_Witness ==
    /\ PushDone /\ bucketed
    /\ Len(requests) = 5
    /\ Len(BulkRequests) = 2

\* C8: after completed create_index calls of a bucketed collector that did
\* not overlap, whatever their timestamps, the alias is bound to exactly the
\* index of the call provisioned last.
C8_SequentialAliasIsLatest ==
    (bucketed /\ ~overlapped /\ last_done # <<>> /\ \A p \in Procs : ~Inside(p)) =>
        Resolve(alias_name) = {get_index_name(last_done[1])}

C8_Witness ==
    /\ bucketed /\ ~overlapped
    /\ \A p \in Procs : cpc[p] = "done"
    /\ get_index_name(cts[1]) # get_index_name(cts[2])
    /\ Cardinality(indices) >= 2
    /\ Cardinality(Resolve(alias_name)) = 1

\* C9: when concurrent create_index calls of a bucketed collector have all
\* finished, however their requests interleaved, the alias is bound to
\* exactly the index of the call whose put-alias ran last.
C9_LastWriterWins ==
    (bucketed /\ \A p \in Procs : cpc[p] = "done") =>
        Resolve(alias_name) = {last_put[1]}

\* C10: a live push of N records with chunk size c to a store that accepts
\* every item sends ceil(N/c) bulk requests, each of at most c records and
\* all but the last of exactly c, holding the records in production order,
\* and returns (N, []).
C10_BatchesOfChunkSize ==
    (PushDone /\ store_accepts_all) =>
        LET N == Len(collected)
            c == chunk_size
            B == BulkRequests
        IN /\ Len(B) = (N + c - 1) \div c
           /\ \A i \in DOMAIN B :
                 /\ Len(B[i].actions) <= c
                 /\ i < Len(B) => Len(B[i].actions) = c
                 /\ \A j \in DOMAIN B[i].actions :
                       B[i].actions[j]._id = (i - 1) * c + j
           /\ result = <<N, <<>>>>

C10_Witness ==
    /\ PushDone /\ store_accepts_all
    /\ chunk_size = 2 /\ Len(collected) = 5
    /\ [i \in DOMAIN BulkRequests |-> Len(BulkRequests[i].actions)] = <<2, 2, 1>>
    /\ result = <<5, <<>>>>

\* the records of a sequence of bulk requests, in the order they were sent
RECURSIVE SentActions(_)
SentActions(B) ==
    IF B = <<>> THEN <<>> ELSE Head(B).actions \o SentActions(Tail(B))

\* the record ids of a sequence of actions, of yielded pairs, of observer calls
ActionIds(actions) == [i \in DOMAIN actions |-> actions[i]._id]
OutcomeIds(pairs) == [i \in DOMAIN pairs |-> Body(pairs[i][2])._id]

Raised == pc = "raised" /\ result = <<>>

\* C11: when a provisioning request of create_index fails, push() propagates
\* the error: no record is pulled from the collector, no batch is submitted,
\* the observer is never invoked and no result is returned.
C11_ProvisioningErrorPropagates ==
    exception = "provisioning" =>
        /\ Raised
        /\ method = "push"
        /\ requests[Len(requests)].op \in
              {"indices.create", "indices.delete_alias", "indices.put_alias"}
        /\ collected = <<>> /\ ~exhausted
        /\ BulkRequests = <<>>
        /\ bulk_actions = <<>> /\ lookahead = <<>> /\ outcomes = <<>>
        /\ observed = <<>> /\ yielded = <<>>

C11_Witness ==
    /\ exception = "provisioning" /\ Raised
    /\ bucketed /\ stats_cb
    /\ Len(requests) = 3 /\ requests[3].op = "indices.put_alias"

\* C12: when the submission of batch k raises a transport error, push()
\* raises instead of returning; batch k is the last request ever sent and is
\* sent once, and the observer has been invoked exactly for the records of
\* the acknowledged batches 1..k-1, none of batch k or later.
C12_TransportErrorPropagates ==
    exception = "transport" =>
        LET B == BulkRequests
            k == Len(B)
            acknowledged == ActionIds(SentActions(SubSeq(B, 1, k - 1)))
        IN /\ Raised
           /\ k >= 1
           /\ requests[Len(requests)] = B[k]
           /\ \A i \in 1..(k - 1) :
                 \A j \in DOMAIN B[i].actions :
                    \A l \in DOMAIN B[k].actions :
                       B[i].actions[j]._id # B[k].actions[l]._id
           /\ OutcomeIds(yielded) = acknowledged
           /\ outcomes = <<>>
           /\ stats_cb => OutcomeIds(observed) = acknowledged
           /\ success + Len(fails) = Len(acknowledged)

C12_Witness ==
    /\ exception = "transport" /\ Raised /\ stats_cb
    /\ chunk_size = 2
    /\ Len(BulkRequests) = 2
    /\ OutcomeIds(observed) = <<1, 2>>
    /\ ActionIds(BulkRequests[2].actions) = <<3, 4>>

\* C13: when collect() raises while producing a record, push() and
\* fake_push() propagate the error and return no result; the records of the
\* current incomplete batch are never sent, and every batch that was sent
\* was sent once and acknowledged before the error.
C13_CollectErrorPropagates ==
    exception = "collect" =>
        /\ Raised
        /\ ~exhausted
        /\ method = "fake_push" => requests = <<>>
        /\ method = "push" =>
              LET sent == ActionIds(SentActions(BulkRequests))
              IN /\ sent = [i \in 1..(Len(collected) - Len(bulk_actions)) |-> i]
                 /\ ActionIds(bulk_actions) =
                       [i \in 1..Len(bulk_actions) |-> Len(sent) + i]
                 /\ OutcomeIds(yielded) = sent
                 /\ outcomes = <<>> /\ lookahead = <<>>

C13_Witness ==
    /\ exception = "collect" /\ Raised /\ method = "push"
    /\ chunk_size = 2
    /\ Len(collected) = 4
    /\ Len(BulkRequests) = 1
    /\ ActionIds(bulk_actions) = <<3, 4>>

C13_WitnessFake ==
    /\ exception = "collect" /\ Raised /\ method = "fake_push"
    /\ Len(collected) = 2 /\ success = 2

\* process p returns from create_index in this step
Completes(p) == cpc[p] # "done" /\ cpc'[p] = "done"

\* C14: create_index is idempotent: the already-exists answer to create and
\* the not-found answer to the alias delete never make a call raise, and a
\* call that runs directly after a completed call of the same collector and
\* timestamp, with no other call between or beside them, leaves the remote
\* state exactly as that first call left it.
C14_CreateIndexIdempotent ==
    /\ [](\A p \in Procs : cpc[p] # "raised")
    /\ [][\A p \in Procs :
            (Completes(p) /\ ~overlapped /\ last_done = <<cts[p]>>) =>
                <<indices', aliases'>> = store_at_done]_vars

C14_Witness ==
    /\ bucketed /\ ~overlapped
    /\ \A p \in Procs : cpc[p] = "done" /\ cts[p] = [day |-> 1, hour |-> 23]
    /\ indices = {get_index_name(cts[1])}
    /\ Resolve(alias_name) = indices
    /\ store_at_done = <<indices, aliases>>

\* what the claim says the normalizer makes of a record r
Normalized(r) ==
    [f \in DOMAIN r \cup {"_index", "_type"} |->
        IF f \in DOMAIN r THEN r[f]
        ELSE IF f = "_index" THEN get_index_name(timestamp)
        ELSE "status"]

\* the records the normalizer has handed to the bulk helper so far
Normalizer_Output == SentActions(BulkRequests) \o bulk_actions \o lookahead

\* C15: the normalizer yields the collector's records in the same order and
\* number; a record keeps its own _index and _type, a record lacking _index
\* gets get_index_name(), a record lacking _type gets "status", and no other
\* field is added, removed or changed.
C15_NormalizerFrame ==
    /\ (method = "push" /\ exception # "transport") =>
          Normalizer_Output = [i \in DOMAIN collected |-> Normalized(collected[i])]
    /\ (method = "fake_push" /\ stats_cb) =>
          observed = [i \in DOMAIN collected |-> <<TRUE, Normalized(collected[i])>>]

C15_Witness ==
    /\ PushDone /\ collect_impl = "archive" /\ bucketed
    /\ Len(collected) = 3
    /\ "_index" \in DOMAIN collected[1] /\ collected[1]._index = OtherIndex
    /\ "_type" \in DOMAIN collected[2] /\ collected[2]._type = "doc"
    /\ Normalizer_Output[1]._index = OtherIndex
    /\ Normalizer_Output[1]._type = "status"
    /\ Normalizer_Output[2]._index = get_index_name(timestamp)
    /\ Normalizer_Output[2]._type = "doc"

\* the raw name as the claim gives it: the explicit override, else the
\* lowercased qualified name of the class app.collectors.Users
Claimed_RawName ==
    IF index_name \in {None, Empty} THEN <<"app", ".", "users">> ELSE index_name

\* the index name as the claim gives it
Claimed_IndexName(ts) ==
    IF index_date_pattern = None
    THEN Claimed_RawName
    ELSE Claimed_RawName \o <<"-">> \o strftime(ts, index_date_pattern)

\* C16: with the pattern unset get_index_name() is the raw name (the override,
\* else the lowercased qualified name) for every timestamp; with a pattern P
\* it is rawName + "-" + format(timestamp, P), so the timestamps of two
\* collectors get the same name exactly when they format identically; the
\* index a call of create_index has created is the one of that name.
C16_IndexNameIsDeterministic ==
    /\ \A p, q \in Procs :
          LET t1 == cts[p]
              t2 == cts[q]
          IN /\ get_index_name(t1) = Claimed_IndexName(t1)
             /\ index_date_pattern = None => get_index_name(t1) = get_index_name(t2)
             /\ index_date_pattern # None =>
                   (get_index_name(t1) = get_index_name(t2)
                      <=> strftime(t1, index_date_pattern)
                            = strftime(t2, index_date_pattern))
    /\ \A p \in Procs :
          cpc[p] \in {"delete_alias", "put_alias", "done"} =>
              Claimed_IndexName(cts[p]) \in indices

C16_Witness ==
    /\ index_name = None /\ index_date_pattern = DayPattern
    /\ cpc[1] = "done" /\ cts[1] = [day |-> 1, hour |-> 0]
    /\ cpc[2] = "done" /\ cts[2] = [day |-> 2, hour |-> 23]
    /\ indices = {<<"app", ".", "users", "-", "1">>, <<"app", ".", "users", "-", "2">>}

\* s is an initial segment of t
IsPrefix(s, t) == Len(s) <= Len(t) /\ s = SubSeq(t, 1, Len(s))

\* the registry entry the claim gives for a class: (namespace, qualifiedName, type)
Claimed_Entry(cls) ==
    <<Head(cls.module), <<Head(cls.module), ".", cls.name>>, cls>>

\* C17: the registry is append-only and ordered: it holds exactly one
\* (namespace, qualifiedName, type) entry per class definition, in definition
\* order (so it is non-empty after one definition, and A defined before B is
\* listed before B); it only ever grows at its end, and every earlier
\* listing is a prefix of every later one.
C17_RegistryAppendOnly ==
    /\ [](_collectors = [i \in DOMAIN defined |-> Claimed_Entry(defined[i])])
    /\ [](IsPrefix(listed, _collectors))
    /\ [][IsPrefix(_collectors, _collectors') /\ IsPrefix(listed, listed')]_vars

C17_Witness ==
    /\ Len(defined) = 3
    /\ defined[1].module = defined[3].module /\ defined[1].name = defined[3].name
    /\ defined[2].module # defined[1].module
    /\ Len(listed) = 2
    /\ Len(_collectors) = 3
    /\ _collectors[1][2] = <<"app", ".", "Users">>
    /\ _collectors[2][1] = "billing"

\* the records pulled from the collector and not yet submitted to the store
Unsubmitted == Len(bulk_actions) + Len(lookahead)

\* the number of the batch record n belongs to, batches numbered from 0
BatchOf(n) == (n - 1) \div chunk_size

\* in fake_push the observer has seen every record produced so far
FakePushStreams ==
    (method = "fake_push" /\ stats_cb) => Len(observed) = Len(collected)

\* C18 as stated: in a live push at most chunk_size records are pulled and
\* not yet submitted, and no record of batch k+1 is pulled before every
\* outcome of batch k has been classified; in fake_push the observer is
\* invoked for record k before record k+1 is produced.
C18_AtMostChunkSizeBuffered ==
    /\ method = "push" =>
          /\ Unsubmitted <= chunk_size
          /\ collected # <<>> =>
                BatchOf(Len(collected)) <= Len(yielded) \div chunk_size
    /\ FakePushStreams

\* C18, amended: the chunker reads one record ahead.  In a live push at most
\* chunk_size + 1 records are pulled and not yet submitted, and of batch k+1
\* only its first record is pulled before every outcome of batch k has been
\* classified and passed to the observer; in fake_push the observer is
\* invoked for record k before record k+1 is produced.
C18_AtMostOneRecordAhead ==
    /\ method = "push" =>
          /\ Unsubmitted <= chunk_size + 1
          /\ Len(lookahead) <= 1
          /\ Len(collected) >= 2 =>
                BatchOf(Len(collected) - 1) <= Len(yielded) \div chunk_size
          /\ stats_cb => Len(observed) = Len(yielded)
    /\ FakePushStreams

C18_Witness ==
    /\ method = "push" /\ pc = "send" /\ stats_cb
    /\ chunk_size = 2
    /\ Len(bulk_actions) = 2 /\ Len(lookahead) = 1
    /\ Len(collected) = 5 /\ Len(observed) = 2

\* the alias requests sent so far
AliasRequests ==
    SelectSeq(requests, LAMBDA r : r.op \in {"indices.delete_alias",
                                             "indices.put_alias"})

\* C19: create_index of a collector whose index_date_pattern is unset or
\* whose alias_suffix is empty issues only the create-index request: no
\* alias delete, no alias bind, and every alias binding that existed stays
\* as it was.
C19_NoAliasWithoutBucketing ==
    (method = "push" /\ (index_date_pattern = None \/ alias_suffix = Empty)) =>
        /\ AliasRequests = <<>>
        /\ aliases = InitialAliases
        /\ pc \notin {"create", "raised"} =>
              /\ requests # <<>>
              /\ requests[1].op = "indices.create"
              /\ \A i \in 2..Len(requests) : requests[i].op = "bulk"

C19_Witness ==
    /\ PushDone
    /\ index_date_pattern = DayPattern /\ alias_suffix = Empty
    /\ timestamp # Epoch
    /\ Len(requests) >= 2
    /\ aliases = {<<OtherAlias, OtherIndex>>}
    /\ get_index_name(timestamp) \in indices

\* the record with id n came from the collector without a destination index
Defaulted(n) == "_index" \notin DOMAIN collected[n]

\* the index named in the create-index request of this push
ProvisionedByPush == requests[1].index

\* C20: within one live push every record that arrives without a
\* destination index is stamped with one and the same name, the name of the
\* index create_index created at the start of this push and, with bucketing
\* enabled, bound the alias to; no defaulted record is written to any other
\* index.
C20_DefaultedRecordsGoToProvisionedIndex ==
    (method = "push" /\ collected # <<>>) =>
        /\ requests[1].op = "indices.create"
        /\ ProvisionedByPush \in indices
        /\ bucketed =>
              /\ requests[3].op = "indices.put_alias"
              /\ requests[3].index = ProvisionedByPush
              /\ Resolve(alias_name) = {ProvisionedByPush}
        /\ \A i \in DOMAIN SentActions(BulkRequests) :
              LET a == SentActions(BulkRequests)[i]
              IN Defaulted(a._id) => a._index = ProvisionedByPush
        /\ \A a \in {bulk_actions[i] : i \in DOMAIN bulk_actions}
                    \cup {lookahead[i] : i \in DOMAIN lookahead} :
              Defaulted(a._id) => a._index = ProvisionedByPush
        /\ \A d \in docs : Defaulted(d[2]) => d[1] = ProvisionedByPush

C20_Witness ==
    /\ PushDone /\ bucketed /\ collect_impl = "archive"
    /\ timestamp # Epoch
    /\ ProvisionedByPush = <<"app", ".", "users", "-", "2">>
    /\ Len(collected) = 3
    /\ ~Defaulted(1) /\ Defaulted(2) /\ Defaulted(3)
    /\ docs = {<<OtherIndex, 1>>, <<ProvisionedByPush, 2>>, <<ProvisionedByPush, 3>>}

====
